---- MODULE Spec2Model ----
(***************************************************************************)
(* Model of PdfPageNavigator (page-by-page analysis with retry, batch      *)
(* traversal and consolidated study-history persistence) and of the        *)
(* Gemini service helper generateContentWithRetry it calls.                *)
(*                                                                         *)
(* The component is a React function component: every handler and effect   *)
(* is a closure over the values of one render.  A task therefore carries   *)
(* the Map (m), the studyHistoryId (h) and the component instance          *)
(* (s) it captured when it was started.  The updater                       *)
(* `prev => new Map(prev.set(k, a))` mutates the previous state object     *)
(* before copying it, so a closure that holds the object that is the state *)
(* (fresh) sees the first page stored after it was created, and no later   *)
(* one.  Time is counted in units of 1000 ms.                              *)
(***************************************************************************)
EXTENDS Integers, Sequences, FiniteSets, Bags, TLC

\* ---------------------------------------------------------------- bounds
TotalPages == 2       \* pages of the document in the runs with overlapping calls
BatchPages == 4       \* pages of the document in the run with one batch
MaxTasks == 2         \* concurrently running analyzePage / analyzeAllPages calls
MaxPending == 1       \* outstanding store calls of saveConsolidatedHistory
MaxSessions == 2      \* component instances (document opened / reopened)
MaxLatency == 1       \* longest modelled duration of one Gemini call (x1000 ms)
MaxReplies == 2       \* different replies the model may give for one page

\* ------------------------------------------------------ program constants
maxRetries == 3       \* analyzePage: attempts of the outer loop
InitialDelay == 2     \* analyzePage: let delay = 2000
retries == 3          \* generateContentWithRetry: default of `retries`
InnerBackoff == 1     \* generateContentWithRetry: 1000 * (i + 1)
PoliteDelay == 1      \* analyzeAllPages: setTimeout(resolve, 1000)

Pages == 1..BatchPages      \* every page number a document of a run can have
TaskIds == 1..MaxTasks
Sessions == 1..MaxSessions
Docs == {"a", "b"}
DefaultRangeEnd == 5  \* quiz range: Math.min(5, totalPages)
BATCH_SIZE == 5       \* analyzePdfContentComprehensive: const BATCH_SIZE = 5
NoResult == "none"    \* analyzePdfContentComprehensive has not returned
NoId == 0             \* studyHistoryId === null

Min(a, b) == IF a < b THEN a ELSE b

\* ------------------------------------------------------------ JS Map model
\* A Map is a sequence of entries [k, a] in insertion order.
MapHas(m, p) == \E j \in 1..Len(m) : m[j].k = p

MapGet(m, p) == m[CHOOSE j \in 1..Len(m) : m[j].k = p].a

\* Map.prototype.set: replaces the value in place, or appends a new entry.
MapSet(m, p, a) ==
  IF MapHas(m, p)
    THEN [j \in 1..Len(m) |-> IF m[j].k = p THEN [k |-> p, a |-> a] ELSE m[j]]
    ELSE Append(m, [k |-> p, a |-> a])

\* pageAnalyses.has(p) && pageAnalyses.get(p)?.isAnalyzed
IsAnalyzedIn(m, p) == MapHas(m, p) /\ MapGet(m, p).isAnalyzed

\* Array.from(m.values()).filter(p => p.isAnalyzed), in insertion order
AnalyzedList(m) == SelectSeq([j \in 1..Len(m) |-> m[j].a], LAMBDA a : a.isAnalyzed)

AnalyzedPageSet(m) == {p \in Pages : IsAnalyzedIn(m, p)}

RECURSIVE FlatMap(_)
FlatMap(s) == IF s = <<>> THEN <<>> ELSE Head(s) \o FlatMap(Tail(s))

\* ------------------------------------------------------- analysis records
\* analyzePage: the synthesized record for a page without text
EmptyAnalysis(p) ==
  [pageNumber |-> p, keyPoints |-> <<>>, studyPoints |-> <<>>,
   summary |-> "none", tnpscRelevance |-> "na", isAnalyzed |-> TRUE]

\* analyzeIndividualPage's result for page p when the model replied with text v,
\* spread with isAnalyzed: true
PageAnalysisOf(p, v) ==
  [pageNumber |-> p, keyPoints |-> << <<"kp", p, v>> >>,
   studyPoints |-> << [title |-> <<"sp", p>>] >>,
   summary |-> "sum", tnpscRelevance |-> "rel", isAnalyzed |-> TRUE]

\* ------------------------------------------------- consolidation payloads
\* pageAnalysesMapForFirestore: the analyzed entries keyed by page number
FirestoreMap(m) == [p \in AnalyzedPageSet(m) |-> MapGet(m, p)]

Labelled(s, p) == [j \in 1..Len(s) |-> <<"Page", p, s[j]>>]

LabelTitles(s, p) == [j \in 1..Len(s) |-> [title |-> <<"Page", p, s[j].title>>]]

PlainKeyPoints(a) == a.keyPoints
PlainStudyPoints(a) == a.studyPoints
LabelledKeyPoints(a) == Labelled(a.keyPoints, a.pageNumber)
LabelledStudyPoints(a) == LabelTitles(a.studyPoints, a.pageNumber)

\* the analysisResult and page map built by saveConsolidatedHistoryForPage
PayloadForPage(m0, p, a) ==
  LET m == MapSet(m0, p, a)
      lst == AnalyzedList(m)
  IN [keyPoints |-> FlatMap([j \in 1..Len(lst) |-> PlainKeyPoints(lst[j])]),
      studyPoints |-> FlatMap([j \in 1..Len(lst) |-> PlainStudyPoints(lst[j])]),
      summary |-> [j \in 1..Len(lst) |-> <<lst[j].pageNumber, lst[j].summary>>],
      count |-> Len(lst),
      pageMap |-> FirestoreMap(m)]

\* the analysisResult and page map built by saveConsolidatedHistory
PayloadAll(m) ==
  LET lst == AnalyzedList(m)
  IN [keyPoints |-> FlatMap([j \in 1..Len(lst) |-> LabelledKeyPoints(lst[j])]),
      studyPoints |-> FlatMap([j \in 1..Len(lst) |-> LabelledStudyPoints(lst[j])]),
      summary |-> [j \in 1..Len(lst) |-> <<lst[j].pageNumber, lst[j].summary>>],
      count |-> Len(lst),
      pageMap |-> FirestoreMap(m)]

\* ------------------------------------------------------------------ state
VARIABLES
  env,             \* what the surroundings of this run may do (see Envs)
  user,            \* useAuthState: TRUE when a user is signed in
  blank,           \* pages whose extracted text is empty after trim()
  doc,             \* the file (name + size) of the mounted instance
  inst,            \* number of the mounted component instance
  mounted,         \* FALSE between construction and the first effects
  pageAnalyses,    \* useState(initialPageAnalyses || new Map()), its content
  isAnalyzing,     \* useState(false)
  studyHistoryId,  \* useState(...): NoId stands for null
  currentPage,     \* useState(...)
  cache,           \* sessionStorage, keyed by studyHistoryId_<name>_<size>
  tasks,           \* running analyzePage / analyzeAllPages calls
  eff,             \* bag of outstanding store calls of saveConsolidatedHistory
  store,           \* records of the Persistent Record Store
  sess,            \* per instance: file, identifier at start, calls issued
  toasts,          \* notifications (and caught rejections) of the last step
  questions,       \* generateQuestions: the array parsed from the model's reply
  formattedQuestions,  \* generateQuestions: the questions of the returned result
  quizPc,          \* generateQuestions: "idle", "called" or "returned"
  textContent,     \* analyzePdfContentComprehensive: the page matches of its text
  passPc,          \* analyzePdfContentComprehensive: position of the call
  passI,           \* analyzePdfContentComprehensive: the loop variable i
  promises,        \* analyzePdfContentComprehensive: one promise per page match
  allPageAnalyses, \* analyzePdfContentComprehensive: the results pushed so far
  passResult,      \* analyzePdfContentComprehensive: the returned object
  passReplies,     \* analyzePdfContentComprehensive: replies the model may give
  selectedRange,   \* PageRangeQuizSelector: useState({ start, end })
  quizStartPage,   \* PdfPageNavigator: useState(1)
  quizEndPage      \* PdfPageNavigator: useState(Math.min(5, totalPages))

\* the state of a generateQuestions call (Gemini service)
quizVars == <<questions, formattedQuestions, quizPc>>

\* the state of an analyzePdfContentComprehensive call (Gemini service)
passVars == <<textContent, passPc, passI, promises, allPageAnalyses, passResult,
             passReplies>>

\* the quiz page range of the selector dialog and of the navigator
rangeVars == <<selectedRange, quizStartPage, quizEndPage>>

\* the state of one mounted PdfPageNavigator and of its surroundings
navVars == <<env, user, blank, doc, inst, mounted, pageAnalyses, isAnalyzing,
             studyHistoryId, currentPage, cache, tasks, eff, store, sess, toasts>>

\* what the handlers of the navigator's page analysis leave alone
otherVars == <<quizVars, passVars, rangeVars>>

vars == <<navVars, quizVars, passVars, rangeVars>>

EmptyPayload ==
  [keyPoints |-> <<>>, studyPoints |-> <<>>, summary |-> <<>>, count |-> 0,
   pageMap |-> [p \in {} |-> 0]]

NoCall == [op |-> "none", id |-> NoId, payload |-> EmptyPayload]

Idle ==
  [pc |-> "idle", kind |-> "page", origin |-> "none", page |-> 0,
   attempt |-> 0, delay |-> 0, i |-> 0, lastErr |-> "none",
   elapsed |-> 0, gap |-> 0, loopI |-> 0, prev |-> 0, ok |-> TRUE, res |-> "none",
   m |-> <<>>, fresh |-> FALSE, h |-> NoId, s |-> 0, call |-> NoCall,
   wasDone |-> FALSE,
   reqOnDone |-> FALSE]

NoSess == [doc |-> "a", startId |-> NoId, prop |-> NoId, creates |-> 0]

\* The runs explored.  Each fixes what may happen around the component: how many
\* calls may overlap, whether Gemini requests and store calls may fail, how long
\* a request may take, how often a document may be opened, whether a user
\* may be signed in, how many pages the document has and how many different
\* replies the model may give for a page.
Envs ==
  { \* one call at a time, every external call may fail
    [slots |-> 1, faults |-> TRUE, storeFaults |-> TRUE, latency |-> MaxLatency,
     sessions |-> 1, users |-> BOOLEAN, pages |-> TotalPages, replies |-> 1],
    \* overlapping calls, nothing fails
    [slots |-> MaxTasks, faults |-> FALSE, storeFaults |-> FALSE, latency |-> 0,
     sessions |-> 1, users |-> BOOLEAN, pages |-> TotalPages, replies |-> MaxReplies],
    \* overlapping calls with failing requests, nobody signed in
    [slots |-> MaxTasks, faults |-> TRUE, storeFaults |-> FALSE, latency |-> 0,
     sessions |-> 1, users |-> {FALSE}, pages |-> TotalPages, replies |-> 1],
    \* documents closed and opened again
    [slots |-> 1, faults |-> FALSE, storeFaults |-> FALSE, latency |-> 0,
     sessions |-> MaxSessions, users |-> BOOLEAN, pages |-> TotalPages, replies |-> 1],
    \* a longer document, one call at a time, nothing fails, a user signed in
    [slots |-> 1, faults |-> FALSE, storeFaults |-> FALSE, latency |-> 0,
     sessions |-> 1, users |-> {TRUE}, pages |-> BatchPages, replies |-> 1] }

Slots == 1..env.slots

\* the totalPages prop of the document of this run
totalPages == env.pages

\* the pages of the document
DocPages == 1..totalPages

Free(t) == tasks[t].pc = "idle"

\* the slot a new call runs in
FreeSlot == CHOOSE t \in Slots : Free(t) /\ \A u \in Slots : Free(u) => t <= u

HasFreeSlot == \E t \in Slots : Free(t)

\* mutant: the initializer without the sessionStorage fallback
InitialStudyHistoryId_NoCache(prop, d) == prop

\* useState initializer of studyHistoryId: the prop first, then sessionStorage
InitialStudyHistoryId(prop, d) == IF prop # NoId THEN prop ELSE cache[d]

\* useState initializer of currentPage
InitialCurrentPage(m) ==
  IF Len(m) > 0
    THEN LET last == CHOOSE p \in Pages :
                        MapHas(m, p) /\ \A q \in Pages : MapHas(m, q) => q <= p
         IN Min(last + 1, totalPages)
    ELSE 1

\* mutant: the blank test never succeeds
IsBlank_Never(p) == FALSE

\* extractPageRangeFromOcr(fullText, p, p).trim() is empty
IsBlank(p) == p \in blank

\* setPageAnalyses(prev => new Map(prev.set(p, a))), the new state
SetPageAnalyses(p, a) == MapSet(pageAnalyses, p, a)

\* the same updater seen from the closures: prev.set(p, a) changes the Map object
\* that was the state, which the closures of the last render still hold
MutatePrev(ts, p, a) ==
  [u \in TaskIds |->
     IF ts[u].fresh
       THEN [ts[u] EXCEPT !.m = MapSet(@, p, a), !.fresh = FALSE]
       ELSE ts[u]]

\* the store call saveConsolidatedHistory issues for Map m under the identifier
\* of the render it runs in
ConsolidatedCall(m, id) ==
  [op |-> IF id # NoId THEN "update" ELSE "create", id |-> id,
   payload |-> PayloadAll(m), s |-> inst]

\* useEffect(..., [pageAnalyses]): saveConsolidatedHistory() when a page is analyzed
EffectCalls(m, id) ==
  IF user /\ Len(AnalyzedList(m)) > 0 THEN <<ConsolidatedCall(m, id)>> ELSE <<>>

\* eff with the calls of one step added
AddCalls(e, calls) ==
  IF calls = <<>> THEN e ELSE e (+) SetToBag({calls[1]})

\* the store call saveConsolidatedHistoryForPage issues from the closure (m, h)
ForPageCall(m, h, p, a) ==
  [op |-> IF h # NoId THEN "update" ELSE "create", id |-> h,
   payload |-> PayloadForPage(m, p, a)]

\* sess with the createRecord calls among `calls` counted for instance s
CountCalls(se, s, calls) ==
  [se EXCEPT
     ![s].creates = @ + Cardinality({j \in 1..Len(calls) : calls[j].op = "create"})]

\* first page from `from` on that the closure's Map does not hold as analyzed
NextIncomplete(m, from) ==
  IF \E p \in from..totalPages : ~IsAnalyzedIn(m, p)
    THEN CHOOSE p \in from..totalPages :
           ~IsAnalyzedIn(m, p) /\ \A q \in from..(p - 1) : IsAnalyzedIn(m, q)
    ELSE 0

\* what `await analyzePage(...)` hands back to its caller
Return(tk, r) ==
  IF tk.kind = "all"
    THEN [tk EXCEPT !.pc = "afterPage", !.res = r,
                    !.prev = (IF r = "ok" THEN tk.page ELSE @),
                    !.attempt = 0, !.delay = 0,
                    !.i = 0, !.lastErr = "none", !.elapsed = 0, !.gap = 0,
                    !.wasDone = FALSE, !.reqOnDone = FALSE]
    ELSE Idle

\* model.generateContent(...) is sent
IssueRequest(tk) ==
  [tk EXCEPT !.pc = "req", !.gap = tk.elapsed, !.elapsed = 0, !.lastErr = "none",
             !.reqOnDone = @ \/ (tk.s = inst /\ IsAnalyzedIn(pageAnalyses, tk.page))]

\* the navigator after construction
NavigatorInit ==
  /\ env \in Envs
  /\ user \in env.users
  /\ blank \in SUBSET DocPages
  /\ doc = "a"
  /\ inst = 1
  /\ mounted = FALSE
  /\ pageAnalyses = <<>>
  /\ isAnalyzing = FALSE
  /\ studyHistoryId = NoId
  /\ currentPage = 1
  /\ cache = [d \in Docs |-> NoId]
  /\ tasks = [t \in TaskIds |-> Idle]
  /\ eff = EmptyBag
  /\ store = <<>>
  /\ sess = [s \in Sessions |-> NoSess]
  /\ toasts = {}

\* no comprehensive pass has been called
PassIdle ==
  /\ textContent = <<>>
  /\ passPc = "idle"
  /\ passI = 0
  /\ promises = <<>>
  /\ allPageAnalyses = <<>>
  /\ passResult = NoResult
  /\ passReplies = 1

\* the initial quiz range of the selector dialog and of the navigator
RangeInit ==
  /\ selectedRange = [start |-> 1, end |-> Min(DefaultRangeEnd, totalPages)]
  /\ quizStartPage = 1
  /\ quizEndPage = Min(DefaultRangeEnd, totalPages)

\* no generateQuestions call has been made
QuizIdle ==
  /\ questions = <<>>
  /\ formattedQuestions = <<>>
  /\ quizPc = "idle"

Init ==
  /\ NavigatorInit
  /\ QuizIdle
  /\ PassIdle
  /\ RangeInit

\* a toast (sonner) about page p shown by a call of instance s
Toast(n, p, s) == [n |-> n, p |-> p, s |-> s]

\* --------------------------------------------------------------- analyzePage
\* error.message.includes("429")
Is429(e) == e = "429"

\* a call analyzePage(base.page) made from the closure base.m / base.h / base.s,
\* run up to its first await.  eff0, se0 and busy0 are eff, sess and isAnalyzing
\* as the caller left them; base.elapsed is the time the caller waited since the
\* call before this one returned.
AnalyzePageCall(t, base, eff0, se0, busy0) ==
  LET p == base.page
      live == base.s = inst
      tk == [base EXCEPT !.attempt = 0, !.delay = InitialDelay, !.i = 0,
                         !.lastErr = "none", !.gap = 0, !.res = "none", !.call = NoCall,
                         !.reqOnDone = FALSE,
                         !.wasDone = live /\ IsAnalyzedIn(pageAnalyses, p)]
  IN IF IsAnalyzedIn(base.m, p)
       THEN \* already analyzed, skipping
            /\ tasks' = [tasks EXCEPT ![t] = Return(tk, "ok")]
            /\ isAnalyzing' = busy0
            /\ eff' = eff0
            /\ sess' = se0
            /\ toasts' = {}
            /\ UNCHANGED pageAnalyses
       ELSE IF IsBlank(p)
         THEN \* no text content: store the empty analysis, no request
              /\ toasts' = {Toast("blank", p, base.s)}
              /\ IF live
                   THEN /\ tasks' = MutatePrev([tasks EXCEPT ![t] = Return(tk, "ok")],
                                               p, EmptyAnalysis(p))
                        /\ pageAnalyses' = SetPageAnalyses(p, EmptyAnalysis(p))
                        /\ isAnalyzing' = FALSE
                        /\ LET calls == EffectCalls(SetPageAnalyses(p, EmptyAnalysis(p)),
                                                    studyHistoryId)
                           IN /\ BagCardinality(eff0) + Len(calls) <= MaxPending
                              /\ eff' = AddCalls(eff0, calls)
                              /\ sess' = CountCalls(se0, inst, calls)
                   ELSE /\ tasks' = [tasks EXCEPT ![t] = Return(tk, "ok")]
                        /\ isAnalyzing' = busy0
                        /\ eff' = eff0
                        /\ sess' = se0
                        /\ UNCHANGED pageAnalyses
         ELSE \* analyzeIndividualPage -> generateContentWithRetry, i = 0
              /\ tasks' = [tasks EXCEPT ![t] = IssueRequest(tk)]
              /\ isAnalyzing' = (IF live THEN TRUE ELSE busy0)
              /\ eff' = eff0
              /\ sess' = se0
              /\ toasts' = {}
              /\ UNCHANGED pageAnalyses

NewTask(kind, origin, p) ==
  [Idle EXCEPT !.kind = kind, !.origin = origin, !.page = p,
               !.m = pageAnalyses, !.fresh = TRUE, !.h = studyHistoryId,
               !.s = inst]

\* the end of analyzeAllPages: the success toast and setIsAnalyzing(false)
AllFinish(t, tk, note) ==
  /\ tasks' = [tasks EXCEPT ![t] = Idle]
  /\ toasts' = note \cup
       (IF tk.ok /\ Len(AnalyzedList(tk.m)) = totalPages
          THEN {Toast("allDone", 0, tk.s)} ELSE {})
  /\ isAnalyzing' = (IF tk.s = inst THEN FALSE ELSE isAnalyzing)
  /\ UNCHANGED <<pageAnalyses, eff, sess>>

\* the for loop of analyzeAllPages from index `from` up to the next await
AllLoop(t, tk, from, busy0) ==
  LET i == NextIncomplete(tk.m, from)
  IN IF i = 0
       THEN AllFinish(t, tk, {})
       ELSE AnalyzePageCall(t, [tk EXCEPT !.page = i, !.loopI = i], eff, sess, busy0)

\* the component's effects after its first render
Mount ==
  /\ ~mounted
  /\ HasFreeSlot
  /\ mounted' = TRUE
  /\ cache' = IF studyHistoryId # NoId
                THEN [cache EXCEPT ![doc] = studyHistoryId] ELSE cache
  /\ LET calls == EffectCalls(pageAnalyses, studyHistoryId)
         eff0 == AddCalls(eff, calls)
         se0 == CountCalls(sess, inst, calls)
     IN /\ BagCardinality(eff0) <= MaxPending
        /\ IF ~IsAnalyzedIn(pageAnalyses, currentPage)
          THEN AnalyzePageCall(FreeSlot, NewTask("page", "auto", currentPage),
                               eff0, se0, isAnalyzing)
          ELSE /\ eff' = eff0
               /\ sess' = se0
               /\ toasts' = {}
               /\ UNCHANGED <<tasks, pageAnalyses, isAnalyzing>>
  /\ UNCHANGED <<otherVars, env, user, blank, doc, inst, studyHistoryId, currentPage, store>>

\* mutant: navigation moves the cursor and starts no analysis
navigateToPage_CursorOnly(n) ==
  /\ mounted
  /\ currentPage' = (IF n \in DocPages THEN n ELSE currentPage)
  /\ toasts' = {}
  /\ UNCHANGED <<tasks, pageAnalyses, isAnalyzing, eff, sess>>
  /\ UNCHANGED <<otherVars, env, user, blank, doc, inst, mounted, studyHistoryId, cache, store>>

\* mutant: navigation without the range check
navigateToPage_NoRangeCheck(n) ==
  /\ mounted
  /\ currentPage' = n
  /\ IF ~IsAnalyzedIn(pageAnalyses, n)
       THEN /\ HasFreeSlot
            /\ AnalyzePageCall(FreeSlot, NewTask("page", "nav", n),
                               eff, sess, isAnalyzing)
       ELSE /\ toasts' = {}
            /\ UNCHANGED <<tasks, pageAnalyses, isAnalyzing, eff, sess>>
  /\ UNCHANGED <<otherVars, env, user, blank, doc, inst, mounted, studyHistoryId, cache, store>>

navigateToPage(n) ==
  /\ mounted
  /\ IF n \in DocPages
       THEN /\ currentPage' = n
            /\ IF ~IsAnalyzedIn(pageAnalyses, n)
                 THEN /\ HasFreeSlot
                      /\ AnalyzePageCall(FreeSlot, NewTask("page", "nav", n),
                                         eff, sess, isAnalyzing)
                 ELSE /\ toasts' = {}
                      /\ UNCHANGED <<tasks, pageAnalyses, isAnalyzing, eff, sess>>
       ELSE /\ toasts' = {}
            /\ UNCHANGED <<currentPage, tasks, pageAnalyses, isAnalyzing, eff, sess>>
  /\ UNCHANGED <<otherVars, env, user, blank, doc, inst, mounted, studyHistoryId, cache, store>>

\* the previous / next buttons, disabled at the ends and while isAnalyzing
ClickPrevNext ==
  \E n \in {currentPage - 1, currentPage + 1} :
    /\ ~isAnalyzing
    /\ n \in DocPages
    /\ navigateToPage(n)

\* values the jump input can hand over: parseInt(value) || 1
JumpInputs == {0 - 1} \cup (1..(totalPages + 1))

\* the "Jump to" input (onBlur / Enter); it is never disabled
Jump ==
  \E n \in JumpInputs : navigateToPage(n)

\* the Analyze button: analyzePage(currentPage)
ClickAnalyze ==
  /\ mounted
  /\ ~isAnalyzing
  /\ ~IsAnalyzedIn(pageAnalyses, currentPage)
  /\ HasFreeSlot
  /\ AnalyzePageCall(FreeSlot, NewTask("page", "button", currentPage),
                     eff, sess, isAnalyzing)
  /\ UNCHANGED <<otherVars, env, user, blank, doc, inst, mounted, studyHistoryId, currentPage,
                 cache, store>>

\* the Analyze All button: analyzeAllPages up to its first await
analyzeAllPages ==
  /\ mounted
  /\ ~isAnalyzing
  /\ HasFreeSlot
  /\ AllLoop(FreeSlot, NewTask("all", "all", 0), 1, TRUE)
  /\ UNCHANGED <<otherVars, env, user, blank, doc, inst, mounted, studyHistoryId, currentPage,
                 cache, store>>

\* ------------------------------------------- responses, waits and the store
\* "err": generateContent rejects without a 429, or JSON.parse throws
Outcomes == {"ok", "429", "err"}
Failures == IF env.faults THEN Outcomes \ {"ok"} ELSE {}
Latencies == 0..env.latency
\* the texts the model may reply with for one page
Replies == 1..env.replies
StoreOutcomes == IF env.storeFaults THEN BOOLEAN ELSE {TRUE}

\* generateContentWithRetry: the request resolved and parsed; analyzePage stores
\* the page and calls saveConsolidatedHistoryForPage
ResponseOk(t, v) ==
  LET tk == tasks[t]
      p == tk.page
      a == PageAnalysisOf(p, v)
      live == tk.s = inst
      call == ForPageCall(tk.m, tk.h, p, a)
      calls == IF live THEN EffectCalls(SetPageAnalyses(p, a), studyHistoryId)
                       ELSE <<>>
      stored(ts) == IF live THEN MutatePrev(ts, p, a) ELSE ts
  IN /\ tk.pc = "req"
     /\ BagCardinality(eff) + Len(calls) <= MaxPending
     /\ pageAnalyses' = (IF live THEN SetPageAnalyses(p, a) ELSE pageAnalyses)
     /\ eff' = AddCalls(eff, calls)
     /\ IF user
          THEN /\ tasks' = stored([tasks EXCEPT ![t] =
                              [tk EXCEPT !.pc = "saving", !.call = call,
                                         !.attempt = 0, !.delay = 0, !.i = 0,
                                         !.lastErr = "none", !.gap = 0,
                                         !.wasDone = FALSE, !.reqOnDone = FALSE]])
               /\ sess' = CountCalls(CountCalls(sess, tk.s, <<call>>), inst, calls)
               /\ toasts' = {}
               /\ UNCHANGED isAnalyzing
          ELSE \* no user: the save returns at once
               /\ tasks' = stored([tasks EXCEPT ![t] = Return(tk, "ok")])
               /\ sess' = sess
               /\ toasts' = {Toast("pageOk", p, tk.s)}
               /\ isAnalyzing' = (IF live THEN FALSE ELSE isAnalyzing)
     /\ UNCHANGED <<otherVars, env, user, blank, doc, inst, mounted, studyHistoryId, currentPage,
                    cache, store>>

\* navigateToPage: analyzePage(n).catch(err => console.error(...)), the handler
\* that receives the rejection of a call started by navigation
Caught(tk) ==
  IF tk.origin = "nav" THEN {Toast("navCaught", tk.page, tk.s)} ELSE {}

\* mutant: the catch of analyzePage retries on 429 without looking at attempt
OuterRetry_Unbounded(e, attempt) == Is429(e)

\* analyzePage's catch: error.message.includes("429") && attempt < maxRetries - 1
OuterRetry(e, attempt) == Is429(e) /\ attempt < maxRetries - 1

\* generateContentWithRetry: the request or JSON.parse threw
ResponseFail(t, e, lat) ==
  LET tk == tasks[t]
      live == tk.s = inst
      tk1 == [tk EXCEPT !.elapsed = lat, !.lastErr = e, !.gap = 0]
  IN /\ tk.pc = "req"
     /\ IF tk.i < retries - 1
          THEN \* inner loop: wait 1000 * (i + 1), whatever the error
               /\ tasks' = [tasks EXCEPT ![t] = [tk1 EXCEPT !.pc = "innerWait"]]
               /\ toasts' = {}
               /\ UNCHANGED isAnalyzing
          ELSE \* "failed after 3 attempts. Last error: ..." reaches analyzePage
               IF OuterRetry(e, tk.attempt)
                 THEN /\ tasks' = [tasks EXCEPT ![t] = [tk1 EXCEPT !.pc = "outerWait"]]
                      /\ toasts' = {Toast("retrying", tk.page, tk.s)}
                      /\ UNCHANGED isAnalyzing
                 ELSE /\ tasks' = [tasks EXCEPT ![t] = Return(tk1, "fail")]
                      /\ toasts' = {Toast("pageFailed", tk.page, tk.s)} \cup Caught(tk)
                      /\ isAnalyzing' = (IF live THEN FALSE ELSE isAnalyzing)
     /\ UNCHANGED <<otherVars, env, user, blank, doc, inst, mounted, pageAnalyses, studyHistoryId,
                    currentPage, cache, eff, store, sess>>

Response ==
  \E t \in TaskIds :
    \/ \E v \in Replies : ResponseOk(t, v)
    \/ \E e \in Failures, lat \in Latencies : ResponseFail(t, e, lat)

\* generateContentWithRetry: the setTimeout of the inner loop fired
InnerWake ==
  \E t \in TaskIds :
    LET tk == tasks[t]
    IN /\ tk.pc = "innerWait"
       /\ tasks' = [tasks EXCEPT ![t] =
                      IssueRequest([tk EXCEPT !.i = @ + 1,
                                              !.elapsed = @ + InnerBackoff * (tk.i + 1)])]
       /\ toasts' = {}
       /\ UNCHANGED <<otherVars, env, user, blank, doc, inst, mounted, pageAnalyses, isAnalyzing,
                      studyHistoryId, currentPage, cache, eff, store, sess>>

\* analyzePage: the setTimeout(resolve, delay) fired; delay *= 2, next attempt
OuterWake ==
  \E t \in TaskIds :
    LET tk == tasks[t]
    IN /\ tk.pc = "outerWait"
       /\ tasks' = [tasks EXCEPT ![t] =
                      IssueRequest([tk EXCEPT !.attempt = @ + 1, !.i = 0,
                                              !.delay = @ * 2,
                                              !.elapsed = @ + tk.delay])]
       /\ toasts' = {}
       /\ UNCHANGED <<otherVars, env, user, blank, doc, inst, mounted, pageAnalyses, isAnalyzing,
                      studyHistoryId, currentPage, cache, eff, store, sess>>

\* Persistent Record Store: createRecord returns a fresh identifier
StoreCreate(d, payload) == Append(store, [doc |-> d, payload |-> payload])

\* Persistent Record Store: updateRecord replaces the payload of a record
StoreUpdate(id, payload) ==
  IF id \in DOMAIN store THEN [store EXCEPT ![id].payload = payload] ELSE store

StoreApply(call, d, ok) ==
  IF ~ok THEN store
  ELSE IF call.op = "create" THEN StoreCreate(d, call.payload)
  ELSE StoreUpdate(call.id, call.payload)

\* mutant: a rejected store call is rethrown to analyzePage
SaveResult_Propagates(ok) == IF ok THEN "ok" ELSE "fail"

\* saveConsolidatedHistoryForPage catches a rejected store call (toast.error) and
\* returns normally, so analyzePage goes on to its success path either way
SaveResult(ok) == "ok"

\* saveConsolidatedHistoryForPage: the awaited store call settled; analyzePage
\* then shows its success toast and returns
SaveReturn ==
  \E t \in TaskIds, ok \in StoreOutcomes :
    LET tk == tasks[t]
        live == tk.s = inst
        d == sess[tk.s].doc
        created == ok /\ tk.call.op = "create"
        newId == Len(store) + 1
    IN /\ tk.pc = "saving"
       /\ store' = StoreApply(tk.call, d, ok)
       /\ studyHistoryId' = (IF created /\ live THEN newId ELSE studyHistoryId)
       /\ cache' = (IF created THEN [cache EXCEPT ![d] = newId] ELSE cache)
       /\ toasts' = {Toast("pageOk", tk.page, tk.s)} \cup
                      (IF ok THEN {} ELSE {Toast("saveFailed", tk.page, tk.s)})
       /\ isAnalyzing' = (IF live THEN FALSE ELSE isAnalyzing)
       /\ tasks' = [tasks EXCEPT ![t] = Return([tk EXCEPT !.call = NoCall], SaveResult(ok))]
       /\ UNCHANGED <<otherVars, env, user, blank, doc, inst, mounted, pageAnalyses, currentPage,
                      eff, sess>>

\* saveConsolidatedHistory: the store call settled
EffectReturn ==
  \E call \in BagToSet(eff), ok \in StoreOutcomes :
    LET 
        live == call.s = inst
        d == sess[call.s].doc
        created == ok /\ call.op = "create"
        newId == Len(store) + 1
    IN /\ store' = StoreApply(call, d, ok)
       /\ eff' = eff (-) SetToBag({call})
       /\ studyHistoryId' = (IF created /\ live THEN newId ELSE studyHistoryId)
       \* the effect on [studyHistoryId] writes sessionStorage after the render
       /\ cache' = (IF created /\ live THEN [cache EXCEPT ![d] = newId] ELSE cache)
       /\ toasts' = {}
       /\ UNCHANGED <<otherVars, env, user, blank, doc, inst, mounted, pageAnalyses, isAnalyzing,
                      currentPage, tasks, sess>>

\* ------------------------------------------------------------ analyzeAllPages
\* mutant: the catch around `await analyzePage(i)` does not leave the loop
BatchStops_Never(res) == FALSE

\* analyzeAllPages: `await analyzePage(i)` threw, the catch breaks out of the loop
BatchStops(res) == res = "fail"

\* analyzeAllPages after `await analyzePage(i)` settled
AfterPage ==
  \E t \in TaskIds :
    LET tk == tasks[t]
    IN /\ tk.pc = "afterPage"
       /\ IF ~BatchStops(tk.res)
            THEN IF tk.loopI < totalPages
                   THEN /\ tasks' = [tasks EXCEPT ![t] = [tk EXCEPT !.pc = "politeWait"]]
                        /\ toasts' = {}
                        /\ UNCHANGED <<pageAnalyses, isAnalyzing, eff, sess>>
                   ELSE AllLoop(t, tk, tk.loopI + 1, isAnalyzing)
            ELSE AllFinish(t, [tk EXCEPT !.ok = FALSE], {Toast("stopped", tk.loopI, tk.s)})
       /\ UNCHANGED <<otherVars, env, user, blank, doc, inst, mounted, studyHistoryId, currentPage,
                      cache, store>>

\* analyzeAllPages: the polite 1000 ms delay is over, the loop goes on
PoliteWake ==
  \E t \in TaskIds :
    LET tk == tasks[t]
    IN /\ tk.pc = "politeWait"
       /\ AllLoop(t, [tk EXCEPT !.elapsed = PoliteDelay], tk.loopI + 1, isAnalyzing)
       /\ UNCHANGED <<otherVars, env, user, blank, doc, inst, mounted, studyHistoryId, currentPage,
                      cache, store>>

\* ------------------------------------------------------- opening a document
\* identifiers the parent can pass as initialStudyHistoryId for file d
KnownIds(d) == {id \in DOMAIN store : store[id].doc = d}

\* initialPageAnalyses rebuilt from a stored record, in page order
RECURSIVE MapOfRecord(_, _)
MapOfRecord(pm, from) ==
  IF from > totalPages THEN <<>>
  ELSE (IF from \in DOMAIN pm THEN <<[k |-> from, a |-> pm[from]]>> ELSE <<>>)
         \o MapOfRecord(pm, from + 1)

\* the parent unmounts the navigator and mounts a new one for file d, either
\* from an upload (prop = NoId) or resuming a stored record (prop = its id)
Reopen ==
  \E d \in Docs, prop \in {NoId} \cup DOMAIN store :
    LET m0 == IF prop = NoId THEN <<>> ELSE MapOfRecord(store[prop].payload.pageMap, 1)
        id0 == InitialStudyHistoryId(prop, d)
    IN /\ mounted
       /\ inst < env.sessions
       /\ prop \in {NoId} \cup KnownIds(d)
       /\ inst' = inst + 1
       /\ doc' = d
       /\ mounted' = FALSE
       /\ pageAnalyses' = m0
       /\ tasks' = [u \in TaskIds |-> [tasks[u] EXCEPT !.fresh = FALSE]]
       /\ isAnalyzing' = FALSE
       /\ studyHistoryId' = id0
       /\ currentPage' = InitialCurrentPage(m0)
       /\ sess' = [sess EXCEPT ![inst + 1] =
                     [NoSess EXCEPT !.doc = d, !.startId = id0, !.prop = prop]]
       /\ toasts' = {}
       /\ UNCHANGED <<otherVars, env, user, blank, cache, eff, store>>

Next ==
  \/ Mount
  \/ ClickPrevNext
  \/ Jump
  \/ ClickAnalyze
  \/ analyzeAllPages
  \/ Response
  \/ InnerWake
  \/ OuterWake
  \/ SaveReturn
  \/ EffectReturn
  \/ AfterPage
  \/ PoliteWake
  \/ Reopen

Spec == Init /\ [][Next]_vars

TypeOK ==
  /\ BagCardinality(eff) <= MaxPending
  /\ inst \in Sessions
  /\ currentPage \in DocPages

\* ------------------------------------------------------------------ claims
\* requests sent so far by the analyzePage call of a task in its retry loops
Reqs(tk) == tk.attempt * retries + tk.i + 1

\* the retry loop of the task is active: a request is out or a retry is pending
InRetryLoop(t) == tasks[t].pc \in {"req", "innerWait", "outerWait"}

\* store calls of instance s that have been issued and have not settled
Outstanding(s) ==
  {c \in BagToSet(eff) : c.s = s} \cup
  {[op |-> tasks[t].call.op, id |-> tasks[t].call.id,
    payload |-> tasks[t].call.payload, s |-> s] :
     t \in {u \in TaskIds : tasks[u].pc = "saving" /\ tasks[u].s = s}}

\* C1: in the lifetime of one Document Session exactly one createRecord call is
\* issued, every other persistence call being an updateRecord: no instance ever
\* issues a second createRecord.
C1_ExactlyOneCreate == \A s \in Sessions : sess[s].creates <= 1

\* C2: once studyHistoryId holds an identifier, no later step of that session
\* sets it to a different value.
C2_IdNeverChanges ==
  [][(inst' = inst /\ studyHistoryId # NoId) => studyHistoryId' = studyHistoryId]_vars

\* C3: an identifier returned by createRecord to the mounted session is stored in
\* sessionStorage under the file's key; a session opened for a file starts with
\* the identifier cached for it; and a session that starts with an identifier
\* issues no createRecord and only updateRecord calls carrying that identifier.
C3_CacheRecovery ==
  /\ [](\A s \in Sessions :
         sess[s].startId # NoId =>
           /\ sess[s].creates = 0
           /\ \A c \in Outstanding(s) : c.op = "update" /\ c.id = sess[s].startId)
  /\ [][(inst' = inst /\ studyHistoryId' # studyHistoryId)
          => cache'[doc] = studyHistoryId']_vars
  /\ [][(inst' # inst /\ sess'[inst'].prop = NoId)
          => studyHistoryId' = cache[doc']]_vars

\* C3 witness: the document was reopened without props, the new session started
\* with the cached identifier and has an updateRecord with it outstanding.
C3_Witness ==
  /\ inst > 1
  /\ sess[inst].prop = NoId
  /\ sess[inst].startId # NoId
  /\ sess[inst].doc = sess[1].doc
  /\ \E c \in Outstanding(inst) : c.op = "update" /\ c.id = sess[inst].startId

\* C4: analyzePage called for a page that is complete in the progress map is a
\* no-op: it sends no request (and changes nothing).
C4_CompleteIsNoOp ==
  \A t \in TaskIds : tasks[t].wasDone => ~InRetryLoop(t)

\* C5: no request is sent automatically (analyzeAllPages, navigation, the
\* auto-analysis on load) for a page that is complete in the progress map at
\* the moment the request is sent.
C5_NoAutomaticReRequest ==
  \A t \in TaskIds :
    tasks[t].origin \in {"all", "nav", "auto"} => ~tasks[t].reqOnDone

\* C6: at most one analysis is in flight for a page, and at most one retry loop
\* is active in the session.
C6_OneRetryLoop ==
  \A t, u \in TaskIds :
    (InRetryLoop(t) /\ InRetryLoop(u) /\ tasks[t].s = tasks[u].s) => t = u

\* C7: a page whose first request fails with 429 and whose next request succeeds
\* is complete after exactly 2 requests, the second sent at least 2000 ms after
\* the first.
C7_SecondCallAfter2000 ==
  [][\A t \in TaskIds :
       /\ (/\ tasks[t].pc \in {"innerWait", "outerWait"}
           /\ tasks[t].lastErr = "429"
           /\ Reqs(tasks[t]) = 1
           /\ tasks'[t].pc = "req")
          => tasks'[t].gap >= InitialDelay
       /\ (/\ tasks[t].pc = "req"
           /\ Reqs(tasks[t]) = 2
           /\ tasks[t].s = inst'
           /\ tasks'[t].pc \notin {"req", "innerWait"})
          => IsAnalyzedIn(pageAnalyses', tasks[t].page)]_vars

\* C8: only a 429 failure is retried: after any other failure of a request no
\* further request is pending for that call.
C8_RetryOnlyOn429 ==
  \A t \in TaskIds :
    tasks[t].pc \in {"innerWait", "outerWait"} => tasks[t].lastErr = "429"

\* C9: one analyzePage call sends at most 3 requests for its page, the second
\* at least 2000 ms and the third at least 4000 ms after the one before.
C9_AtMostThreeAttempts ==
  \A t \in TaskIds :
    InRetryLoop(t) =>
      /\ Reqs(tasks[t]) <= maxRetries
      /\ (tasks[t].pc = "req" /\ Reqs(tasks[t]) = 2) => tasks[t].gap >= InitialDelay
      /\ (tasks[t].pc = "req" /\ Reqs(tasks[t]) = 3) => tasks[t].gap >= 2 * InitialDelay

\* C10: a page without text is completed inside the analyzePage call: no request
\* is ever sent for it, and the call stores it with the empty analysis (no key
\* points, no study points).
C10_BlankCompletesWithoutRequest ==
  /\ \A t \in TaskIds :
       tasks[t].pc \in {"req", "innerWait", "outerWait", "saving"}
         => tasks[t].page \notin blank
  /\ \A p \in blank :
       Toast("blank", p, inst) \in toasts =>
         /\ IsAnalyzedIn(pageAnalyses, p)
         /\ MapGet(pageAnalyses, p).keyPoints = <<>>
         /\ MapGet(pageAnalyses, p).studyPoints = <<>>
  /\ \A p \in Pages, s \in Sessions : Toast("blank", p, s) \in toasts => p \in blank

\* C10 witness: a call has just completed a page without text.
C10_Witness ==
  \E p \in blank :
    /\ Toast("blank", p, inst) \in toasts
    /\ IsAnalyzedIn(pageAnalyses, p)
    /\ MapGet(pageAnalyses, p) = EmptyAnalysis(p)

\* C11: a terminal failure of analyzePage(k) inside analyzeAllPages ends the
\* batch: the failure is reported for page k, the batch sends no request and
\* runs no further page, and the pages already complete stay complete.
C11_BatchStopsAtFailure ==
  /\ [][\A t \in TaskIds :
          (/\ tasks[t].kind = "all"
           /\ tasks[t].pc = "afterPage"
           /\ tasks[t].res = "fail"
           /\ tasks'[t].pc # "afterPage")
          => /\ tasks'[t] = Idle
             /\ tasks[t].page = tasks[t].loopI
             /\ Toast("stopped", tasks[t].page, tasks[t].s) \in toasts'
             /\ pageAnalyses' = pageAnalyses
             /\ \A u \in TaskIds : tasks'[u].pc = "req" => tasks[u].pc = "req"]_vars
  /\ [][inst' = inst =>
          \A p \in Pages :
            IsAnalyzedIn(pageAnalyses, p) => IsAnalyzedIn(pageAnalyses', p)]_vars

\* C11 witness: a batch has just stopped at page k, the batch is over and the
\* pages after k are not analyzed.
C11_Witness ==
  \E k \in DocPages :
    /\ Toast("stopped", k, inst) \in toasts
    /\ k < totalPages
    /\ \A q \in DocPages : q > k => ~IsAnalyzedIn(pageAnalyses, q)
    /\ \A t \in TaskIds : tasks[t].kind # "all"

\* C12: analyzeAllPages calls analyzePage only for pages that are not complete,
\* in strictly ascending page order, and after a successful call it waits
\* 1000 ms, so the first request for the next page is sent at least 1000 ms
\* after the page before it completed.
C12_BatchOrderAndDelay ==
  \A t \in TaskIds :
    (tasks[t].kind = "all" /\ InRetryLoop(t)) =>
      /\ ~tasks[t].wasDone
      /\ tasks[t].prev < tasks[t].page
      /\ (tasks[t].pc = "req" /\ Reqs(tasks[t]) = 1 /\ tasks[t].prev # 0)
           => tasks[t].gap >= PoliteDelay

\* every store call that has been issued and has not settled
AllOutstanding == UNION {Outstanding(s) : s \in Sessions}

\* the pages a payload's merged record is made of, in the order they were merged
MergedPages(payload) == [j \in 1..Len(payload.summary) |-> payload.summary[j][1]]

\* C13: the Cumulative Record depends only on the set of completed pages: it is
\* merged in ascending page order whatever the order of completion.
C13_MergeAscending ==
  \A c \in AllOutstanding :
    \A j, k \in 1..Len(MergedPages(c.payload)) :
      j < k => MergedPages(c.payload)[j] < MergedPages(c.payload)[k]

\* C14: two consolidations of one session over the same set of completed pages
\* send the same payload, whichever of the two triggers caused them.
C14_SamePagesSamePayload ==
  \A s \in Sessions :
    \A c, d \in Outstanding(s) :
      DOMAIN c.payload.pageMap = DOMAIN d.payload.pageMap => c.payload = d.payload

\* C15: every store call issued by the mounted session carries a merged record
\* and a page map that cover all pages complete in pageAnalyses when it is issued.
C15_PayloadCoversProgress ==
  [][/\ \A t \in TaskIds :
          (tasks[t].pc = "req" /\ tasks'[t].pc = "saving" /\ tasks[t].s = inst')
          => /\ AnalyzedPageSet(pageAnalyses') \subseteq
                  DOMAIN tasks'[t].call.payload.pageMap
             /\ tasks'[t].call.payload.count >= Cardinality(AnalyzedPageSet(pageAnalyses'))
      /\ \A c \in BagToSet(eff') :
          (CopiesIn(c, eff') > CopiesIn(c, eff) /\ c.s = inst')
          => /\ AnalyzedPageSet(pageAnalyses') \subseteq DOMAIN c.payload.pageMap
             /\ c.payload.count >= Cardinality(AnalyzedPageSet(pageAnalyses'))]_vars

\* store calls of instance s that are outstanding, counted
OutstandingCount(s) ==
  BagCardinality([c \in {x \in BagToSet(eff) : x.s = s} |-> CopiesIn(c, eff)])
    + Cardinality({t \in TaskIds : tasks[t].pc = "saving" /\ tasks[t].s = s})

\* C17: for one session no two store calls are outstanding at the same time.
C17_SingleInFlightSave == \A s \in Sessions : OutstandingCount(s) <= 1

\* C16: a failing store call does not touch the analysis: the page just analyzed
\* stays complete, analyzePage still returns normally to its caller, and a
\* running analyzeAllPages goes on with the next page.
C16_SaveFailureIsHarmless ==
  /\ [](\A p \in Pages, s \in Sessions :
         Toast("saveFailed", p, s) \in toasts =>
           /\ Toast("pageOk", p, s) \in toasts
           /\ s = inst => IsAnalyzedIn(pageAnalyses, p)
           /\ \A t \in TaskIds :
                (tasks[t].pc = "afterPage" /\ tasks[t].s = s /\ tasks[t].page = p)
                  => tasks[t].res = "ok")
  /\ [][\A t \in TaskIds :
          (tasks[t].pc = "saving" /\ tasks'[t].pc # "saving")
          => /\ pageAnalyses' = pageAnalyses
             /\ tasks'[t].pc \in {"idle", "afterPage"}
             /\ tasks'[t].pc = "afterPage" => tasks'[t].res = "ok"]_vars
  /\ [][(\E c \in BagToSet(eff) : CopiesIn(c, eff') < CopiesIn(c, eff))
          => tasks' = tasks /\ pageAnalyses' = pageAnalyses]_vars
  /\ [][\A t \in TaskIds :
          (/\ tasks[t].pc = "afterPage"
           /\ tasks[t].res = "ok"
           /\ tasks'[t].pc # "afterPage")
          => /\ \A p \in Pages : Toast("stopped", p, tasks[t].s) \notin toasts'
             /\ tasks[t].loopI < totalPages => tasks'[t].pc = "politeWait"]_vars

\* C16 witness: the store call of a page inside a batch has just failed, the page
\* is complete and the batch is about to go on to the next page.
C16_Witness ==
  \E p \in DocPages, t \in TaskIds :
    /\ Toast("saveFailed", p, inst) \in toasts
    /\ IsAnalyzedIn(pageAnalyses, p)
    /\ p < totalPages
    /\ tasks[t].kind = "all"
    /\ tasks[t].pc = "afterPage"
    /\ tasks[t].page = p
    /\ tasks[t].res = "ok"

\* C18: the completion of a store call issued by a session that has since been
\* replaced is discarded: it changes neither studyHistoryId of the mounted
\* session nor any entry of sessionStorage.
C18_StaleCompletionDiscarded ==
  /\ [][\A t \in TaskIds :
          (/\ tasks[t].pc = "saving"
           /\ tasks[t].s # inst
           /\ sess[tasks[t].s].doc # doc
           /\ tasks'[t].pc # "saving")
          => cache' = cache /\ studyHistoryId' = studyHistoryId]_vars
  /\ [][\A c \in BagToSet(eff) :
          (c.s # inst /\ sess[c.s].doc # doc /\ CopiesIn(c, eff') < CopiesIn(c, eff))
          => cache' = cache /\ studyHistoryId' = studyHistoryId]_vars

\* C19: navigateToPage(n) with n in range moves currentPage to n and, if page n
\* is not complete, starts analyzePage(n) without waiting for it; a terminal
\* failure of that call shows the failure toast and is caught by the handler
\* of navigateToPage: it reaches no other call and currentPage stays on n.
C19_NavigateInBackground ==
  [][/\ (currentPage' # currentPage /\ inst' = inst) =>
          /\ currentPage' \in DocPages
          /\ (~IsAnalyzedIn(pageAnalyses, currentPage') /\ currentPage' \notin blank)
               => \E t \in TaskIds :
                    /\ tasks[t].pc = "idle"
                    /\ tasks'[t].pc = "req"
                    /\ tasks'[t].origin = "nav"
                    /\ tasks'[t].page = currentPage'
          /\ (~IsAnalyzedIn(pageAnalyses, currentPage') /\ currentPage' \in blank)
               => IsAnalyzedIn(pageAnalyses', currentPage')
          /\ IsAnalyzedIn(pageAnalyses, currentPage')
               => \A t \in TaskIds : tasks'[t].pc = tasks[t].pc
     /\ \A t \in TaskIds :
          (/\ tasks[t].origin = "nav"
           /\ tasks[t].pc = "req"
           /\ Toast("pageFailed", tasks[t].page, tasks[t].s) \in toasts'
           /\ tasks'[t].pc # "req")
          => /\ Toast("navCaught", tasks[t].page, tasks[t].s) \in toasts'
             /\ tasks'[t] = Idle
             /\ currentPage' = currentPage
             /\ pageAnalyses' = pageAnalyses
             /\ \A u \in TaskIds \ {t} : tasks'[u] = tasks[u]]_vars

\* C19 witness: the analysis started by navigating to the current page has just
\* failed for good and its rejection was caught.
C19_Witness ==
  /\ Toast("navCaught", currentPage, inst) \in toasts
  /\ Toast("pageFailed", currentPage, inst) \in toasts
  /\ ~IsAnalyzedIn(pageAnalyses, currentPage)
  /\ \A t \in TaskIds : tasks[t].pc = "idle"

\* ---------------------------------------------------------- generateQuestions
MaxQuestions == 2     \* longest array of questions in the model's reply

\* a property the reply leaves out (undefined)
Undefined == "undefined"

\* q.options: an array of some length, or anything that is no array
OptionValues ==
  { [isArray |-> TRUE, v |-> <<"o1", "o2", "o3", "o4">>],
    [isArray |-> TRUE, v |-> <<"o1", "o2", "o3">>],
    [isArray |-> FALSE, v |-> <<>>] }

\* the objects the reply can hold
RawQuestions ==
  [question : {"text", Undefined},
   options : OptionValues,
   answer : {"A", "E"},
   type : {"mcq", "essay"},
   explanation : {"text", ""}]

ReplyArrays == UNION {[1..n -> RawQuestions] : n \in 0..MaxQuestions}

\* the placeholder options
DefaultOptions == [isArray |-> TRUE, v |-> <<"Option A", "Option B", "Option C", "Option D">>]

\* questions.map(q => ({...q, type, options, answer, explanation})): the spread
\* keeps every other property of q as it is
SanitizeQuestion(q) ==
  [q EXCEPT
     !.type = IF q.type = "mcq" \/ q.type = "assertion_reason" THEN q.type ELSE "mcq",
     !.options = IF q.options.isArray /\ Len(q.options.v) = 4
                   THEN q.options ELSE DefaultOptions,
     !.answer = IF q.answer \in {"A", "B", "C", "D"} THEN q.answer ELSE "A",
     !.explanation = IF q.explanation \notin {"", Undefined}
                       THEN q.explanation ELSE "No explanation provided."]

\* a generateQuestions call whose request has resolved with some array
QuizInit ==
  /\ NavigatorInit
  /\ env.pages = BatchPages
  /\ blank = {}
  /\ questions \in ReplyArrays
  /\ formattedQuestions = <<>>
  /\ quizPc = "called"
  /\ PassIdle
  /\ RangeInit

\* generateQuestions from the sanitizing map to its return
generateQuestions ==
  /\ quizPc = "called"
  /\ formattedQuestions' = [j \in 1..Len(questions) |-> SanitizeQuestion(questions[j])]
  /\ quizPc' = "returned"
  /\ UNCHANGED <<questions, navVars, passVars, rangeVars>>

QuizNext == generateQuestions

QuizSpec == QuizInit /\ [][QuizNext]_vars

\* a question record as the callers expect it
WellFormedQuestion(r) ==
  /\ r.question # Undefined
  /\ r.options.isArray /\ Len(r.options.v) = 4
  /\ r.answer \in {"A", "B", "C", "D"}
  /\ r.type \in {"mcq", "assertion_reason"}
  /\ r.explanation \notin {"", Undefined}

\* C20: every record generateQuestions returns has a question text, exactly four
\* options, an answer in A..D, a type in {mcq, assertion_reason} and an
\* explanation, whatever array the model replied with.
C20_NoMalformedQuestion ==
  quizPc = "returned" =>
    \A j \in 1..Len(formattedQuestions) : WellFormedQuestion(formattedQuestions[j])

\* C21: a page that is complete stays complete for the rest of the session and
\* its stored analysis is not replaced, except by a call started with the
\* Analyze button.
C21_AnalysisImmutable ==
  [][inst' = inst =>
       \A p \in Pages :
         IsAnalyzedIn(pageAnalyses, p) =>
           /\ IsAnalyzedIn(pageAnalyses', p)
           /\ \/ MapGet(pageAnalyses', p) = MapGet(pageAnalyses, p)
              \/ \E t \in TaskIds :
                   /\ tasks[t].pc = "req"
                   /\ tasks'[t].pc # "req"
                   /\ tasks[t].page = p
                   /\ tasks[t].origin = "button"]_vars

\* C22: the cursor, every page an analysis is requested for and every page
\* stored in pageAnalyses lie in 1..totalPages, whatever value navigation is
\* called with, and the number of complete pages never exceeds totalPages.
C22_IndexInRange ==
  /\ currentPage \in DocPages
  /\ \A t \in TaskIds :
       tasks[t].pc \in {"req", "innerWait", "outerWait", "saving"}
         => tasks[t].page \in DocPages
  /\ \A j \in 1..Len(pageAnalyses) : pageAnalyses[j].k \in DocPages
  /\ Len(AnalyzedList(pageAnalyses)) <= totalPages

\* C22 witness: navigation has moved the cursor to the last page, its analysis
\* is requested and the first page is stored.
C22_Witness ==
  /\ totalPages > 1
  /\ currentPage = totalPages
  /\ IsAnalyzedIn(pageAnalyses, 1)
  /\ \E t \in TaskIds :
       /\ tasks[t].pc = "req"
       /\ tasks[t].origin = "nav"
       /\ tasks[t].page = totalPages

\* ------------------------------------------------------------------------
\* analyzePdfContentComprehensive (Gemini service): the whole-document pass
\* that analyses the page matches of a text in windows of BATCH_SIZE.
PassPages == 6      \* most page matches in a text
PassReplies == 2    \* most distinct replies of the model for a page

\* a text whose page markers are numbered 1..n in this order; the pages in
\* short have fewer than 50 characters after trim()
AscendingText(n, short) == [j \in 1..n |-> [page |-> j, long |-> j \notin short]]

\* a text whose markers occur in the order given by pages, all of them long
TextOf(pages) == [j \in 1..Len(pages) |-> [page |-> pages[j], long |-> TRUE]]

\* the texts a pass is called with, each with the number of distinct replies
\* the model may give for one page
PassInputs ==
  { [text |-> AscendingText(PassPages, {}), replies |-> 1],
    [text |-> AscendingText(PassPages, {2}), replies |-> 1],
    [text |-> AscendingText(2, {}), replies |-> PassReplies],
    [text |-> TextOf(<<2, 1>>), replies |-> PassReplies] }

\* tnpscCategories of the model's reply v
Categories(v) ==
  IF v = 1 THEN << <<"cat", 1>> >> ELSE << <<"cat", 1>>, <<"cat", v>> >>

\* analyzeIndividualPage's result for page p when the model replied with v
IndividualPage(p, v) ==
  [pageNumber |-> p, keyPoints |-> << <<"kp", p, v>> >>,
   studyPoints |-> << [title |-> <<"sp", p>>] >>,
   summary |-> "sum", tnpscRelevance |-> "rel", tnpscCategories |-> Categories(v)]

\* [...new Set(s)]: the elements of s, each once, in order of first occurrence
RECURSIVE Dedup(_)
Dedup(s) ==
  IF s = <<>> THEN <<>>
  ELSE LET init == Dedup(SubSeq(s, 1, Len(s) - 1))
           last == s[Len(s)]
       IN IF \E j \in 1..Len(init) : init[j] = last THEN init ELSE Append(init, last)

\* a promise of the batch.map callback that has not been created
NoPromise == [st |-> "none", page |-> 0, i |-> 0, v |-> 0, reqs |-> 0, order |-> 0]

Settled(q) == q.st \in {"value", "null", "rejected"}

\* how many promises of the call have settled (order of completion)
SettledCount == Cardinality({j \in 1..Len(promises) : Settled(promises[j])})

\* pageMatches.slice(i, i + BATCH_SIZE): the indexes of the window at offset i
Batch_Whole(i) == [k \in 1..(Len(textContent) - i) |-> i + k]

Batch(i) ==
  [k \in 1..(Min(i + BATCH_SIZE, Len(textContent)) - i) |-> i + k]

BatchSet(i) == {Batch(i)[k] : k \in 1..Len(Batch(i))}

\* what a rejection of analyzeIndividualPage becomes: .catch returns null
OnReject_Propagate == "rejected"

OnReject == "null"

\* the promise the batch.map callback returns for match m; rank counts the
\* promises created as settled before it in the same map
StartPromise(m, rank) ==
  IF ~m.long
    THEN [st |-> "null", page |-> m.page, i |-> 0, v |-> 0, reqs |-> 0,
          order |-> rank]
    ELSE [st |-> "req", page |-> m.page, i |-> 0, v |-> 0, reqs |-> 1, order |-> 0]

\* the short matches of window w before index j
ShortBefore(w, j) ==
  Cardinality({k \in BatchSet(w) : k < j /\ ~textContent[k].long})

\* a call of analyzePdfContentComprehensive that has matched the pages
PassInit ==
  /\ NavigatorInit
  /\ env.pages = BatchPages
  /\ blank = {}
  /\ QuizIdle
  /\ RangeInit
  /\ \E inp \in PassInputs :
       /\ textContent = inp.text
       /\ passReplies = inp.replies
       /\ promises = [j \in 1..Len(inp.text) |-> NoPromise]
  /\ passPc = "loop"
  /\ passI = 0
  /\ allPageAnalyses = <<>>
  /\ passResult = NoResult

\* the loop body up to the await: batch.map creates the window's promises
StartWindow ==
  /\ passPc = "loop"
  /\ passI < Len(textContent)
  /\ promises' = [j \in 1..Len(textContent) |->
                    IF j \in BatchSet(passI)
                      THEN StartPromise(textContent[j],
                                        SettledCount + ShortBefore(passI, j) + 1)
                      ELSE promises[j]]
  /\ passPc' = "await"
  /\ UNCHANGED <<textContent, passReplies, passI, allPageAnalyses, passResult,
                 navVars, quizVars, rangeVars>>

\* model.generateContent of promise j settles: a reply that parses to an
\* object, a reply that parses to null, or an error (generateContentWithRetry)
PassResponse ==
  \E j \in 1..Len(promises) :
    /\ promises[j].st = "req"
    /\ \/ \E v \in 1..passReplies :
            promises' = [promises EXCEPT ![j].st = "value", ![j].v = v,
                                         ![j].i = 0,
                                         ![j].order = SettledCount + 1]
       \/ promises' = [promises EXCEPT ![j].st = OnReject, ![j].i = 0,
                                       ![j].order = SettledCount + 1]
       \/ IF promises[j].i < retries - 1
            THEN promises' = [promises EXCEPT ![j].st = "wait"]
            ELSE promises' = [promises EXCEPT ![j].st = OnReject, ![j].i = 0,
                                              ![j].order = SettledCount + 1]
    /\ UNCHANGED <<textContent, passReplies, passPc, passI, allPageAnalyses,
                   passResult, navVars, quizVars, rangeVars>>

\* the backoff timer of generateContentWithRetry fires: next attempt
PassWake ==
  \E j \in 1..Len(promises) :
    /\ promises[j].st = "wait"
    /\ promises' = [promises EXCEPT ![j].st = "req", ![j].i = @ + 1]
    /\ UNCHANGED <<textContent, passReplies, passPc, passI, allPageAnalyses,
                   passResult, navVars, quizVars, rangeVars>>

\* batchResults.filter(r => r !== null) of the window at offset i
WindowResults(i) ==
  LET all == [k \in 1..Len(Batch(i)) |-> promises[Batch(i)[k]]]
      kept == SelectSeq(all, LAMBDA q : q.st = "value")
  IN [k \in 1..Len(kept) |-> IndividualPage(kept[k].page, kept[k].v)]

\* await Promise.all(promises) resumes: it rejects as soon as one promise
\* has rejected, and fulfils when every promise has
WindowDone ==
  /\ passPc = "await"
  /\ IF \E j \in BatchSet(passI) : promises[j].st = "rejected"
       THEN /\ passPc' = "rejected"
            /\ UNCHANGED <<passI, allPageAnalyses>>
       ELSE /\ \A j \in BatchSet(passI) : Settled(promises[j])
            /\ allPageAnalyses' = allPageAnalyses \o WindowResults(passI)
            /\ passI' = passI + BATCH_SIZE
            /\ passPc' = "loop"
  /\ UNCHANGED <<textContent, passReplies, promises, passResult,
                 navVars, quizVars, rangeVars>>

\* the object analyzePdfContentComprehensive returns
PassResultOf(all) ==
  LET allKeyPoints == FlatMap([j \in 1..Len(all) |-> all[j].keyPoints])
      allCategories == FlatMap([j \in 1..Len(all) |-> all[j].tnpscCategories])
  IN [pageAnalyses |-> all,
      overallSummary |-> <<Len(all), Len(allKeyPoints)>>,
      totalKeyPoints |-> allKeyPoints,
      tnpscCategories |-> Dedup(allCategories)]

\* the loop has ended: flatMap, Set and return
PassReturn ==
  /\ passPc = "loop"
  /\ passI >= Len(textContent)
  /\ passResult' = PassResultOf(allPageAnalyses)
  /\ passPc' = "returned"
  /\ UNCHANGED <<textContent, passReplies, passI, promises, allPageAnalyses,
                 navVars, quizVars, rangeVars>>

PassNext ==
  \/ StartWindow
  \/ PassResponse
  \/ PassWake
  \/ WindowDone
  \/ PassReturn

PassSpec == PassInit /\ [][PassNext]_vars

\* the promises of analyzeIndividualPage calls that have not settled
InFlight == {j \in 1..Len(promises) : promises[j].st \in {"req", "wait"}}

\* the number of the window match j falls in
WindowOf(j) == (j - 1) \div BATCH_SIZE

\* C23: the comprehensive pass never has more than 5 page analyses in flight,
\* starts no page of a later window before every page of the earlier windows
\* has settled, and makes no call to the record store.
C23_WindowBound ==
  /\ [](/\ Cardinality(InFlight) <= 5
        /\ \A j, k \in 1..Len(promises) :
             (WindowOf(j) < WindowOf(k) /\ promises[k].st # "none")
               => Settled(promises[j]))
  /\ [][store' = store /\ eff' = eff]_vars

\* C23 witness: a whole window of a text with more pages than one window is in
\* flight.
C23_Witness ==
  /\ Len(textContent) > BATCH_SIZE
  /\ Cardinality(InFlight) = BATCH_SIZE
  /\ promises[Len(textContent)].st = "none"

\* the analyses of the fulfilled promises in the order of their page matches
FulfilledInTextOrder ==
  LET kept == SelectSeq(promises, LAMBDA q : q.st = "value")
  IN [k \in 1..Len(kept) |-> IndividualPage(kept[k].page, kept[k].v)]

NoDuplicate(s) == \A a, b \in 1..Len(s) : a # b => s[a] # s[b]

SeqRange(s) == {s[j] : j \in 1..Len(s)}

\* C24 (as the code has it): the returned analyses and key points are in the
\* order in which the pages occur in the text, whatever the order in which the
\* analyses of a window completed, and every category is listed once.
C24_TextOrderAndUniqueCategories ==
  passPc = "returned" =>
    /\ passResult.pageAnalyses = FulfilledInTextOrder
    /\ passResult.totalKeyPoints =
         FlatMap([j \in 1..Len(FulfilledInTextOrder) |->
                    FulfilledInTextOrder[j].keyPoints])
    /\ NoDuplicate(passResult.tnpscCategories)
    /\ SeqRange(passResult.tnpscCategories) =
         UNION {SeqRange(FulfilledInTextOrder[j].tnpscCategories) :
                  j \in 1..Len(FulfilledInTextOrder)}

\* C24 witness: the pass has returned two pages of one window of which the
\* later one completed first, and both replies named the same category.
C24_Witness ==
  /\ passPc = "returned"
  /\ \E j, k \in 1..Len(promises) :
       /\ j < k
       /\ WindowOf(j) = WindowOf(k)
       /\ promises[j].st = "value"
       /\ promises[k].st = "value"
       /\ promises[k].order < promises[j].order
  /\ Len(passResult.tnpscCategories) <
       Len(FlatMap([j \in 1..Len(allPageAnalyses) |->
                      allPageAnalyses[j].tnpscCategories]))

C25_FailureIsolated ==
  /\ passPc # "rejected"
  /\ passPc = "returned" =>
       /\ \A j \in 1..Len(promises) :
            textContent[j].long
              => promises[j].reqs >= 1 /\ promises[j].st \in {"value", "null"}
       /\ \A j \in 1..Len(promises) :
            (promises[j].st = "value")
              <=> \E a \in 1..Len(passResult.pageAnalyses) :
                    passResult.pageAnalyses[a] =
                      IndividualPage(promises[j].page, promises[j].v)

\* C25 witness: the pass has returned after the analysis of a page of a window
\* failed while another page of the same window was analysed.
C25_Witness ==
  /\ passPc = "returned"
  /\ \E j, k \in 1..Len(promises) :
       /\ WindowOf(j) = WindowOf(k)
       /\ textContent[j].long
       /\ promises[j].st = "null"
       /\ promises[k].st = "value"
       /\ \E a \in 1..Len(passResult.pageAnalyses) :
            passResult.pageAnalyses[a].pageNumber = promises[k].page

\* the analyzeAllPages call of the mounted instance returns in this step
BatchReturns ==
  \E t \in TaskIds :
    /\ tasks[t].kind = "all"
    /\ tasks[t].pc # "idle"
    /\ tasks[t].s = inst
    /\ tasks'[t].pc = "idle"

\* no call is running and every store call has returned
Quiescent == (\A t \in TaskIds : tasks[t].pc = "idle") /\ eff = EmptyBag

\* the record under the session's identifier maps every analyzed page to its
\* analysis and its merged key points hold the key points of each of them, with
\* or without the page label
RecordComplete ==
  /\ studyHistoryId \in DOMAIN store
  /\ store[studyHistoryId].payload.pageMap = FirestoreMap(pageAnalyses)
  /\ \A j \in 1..Len(AnalyzedList(pageAnalyses)) :
       LET a == AnalyzedList(pageAnalyses)[j]
           merged == SeqRange(store[studyHistoryId].payload.keyPoints)
       IN \/ SeqRange(LabelledKeyPoints(a)) \subseteq merged
          \/ SeqRange(PlainKeyPoints(a)) \subseteq merged

\* C26: with a user signed in and no external call failing, when analyzeAllPages
\* has returned and every store call has returned, the record under the
\* session's identifier holds the page map and merged content of every analyzed
\* page.
C26_RecordHoldsEveryPage ==
  [][(user /\ ~env.faults /\ ~env.storeFaults /\ BatchReturns /\ Quiescent')
       => RecordComplete']_vars

\* C27: isAnalyzing is TRUE in every state in which an analyzePage call of the
\* mounted instance is in flight or an analyzeAllPages call of it has started
\* and not returned, the waits between pages included (a call is taken at its
\* awaits of a request, a timer or a store call).
C27_BusyWhileRunning ==
  \A t \in TaskIds :
    (/\ tasks[t].pc \in {"req", "innerWait", "outerWait", "saving", "politeWait"}
     /\ tasks[t].s = inst) => isAnalyzing

\* C28: when analyzeAllPages returns without a permanent failure and every page
\* 1..totalPages is analyzed at that point, it shows the 'All pages analyzed
\* successfully!' toast.
C28_AllDoneToast ==
  [][(/\ BatchReturns
      /\ \A x \in toasts' : x.n # "stopped"
      /\ AnalyzedPageSet(pageAnalyses') = DocPages)
       => Toast("allDone", 0, inst) \in toasts']_vars

\* ------------------------------------------------------------------------
\* Runs in which every request, timer and store call of a running call
\* eventually settles.
\* the analyzePage call in slot t has been entered and has not returned
InAnalyzePage(t) == tasks[t].pc \in {"req", "innerWait", "outerWait", "saving"}

\* a step of the analyzePage call in slot t: its request settles, one of its
\* timers fires or its store call returns
CallStep(t) ==
  /\ InAnalyzePage(t)
  /\ Response \/ InnerWake \/ OuterWake \/ SaveReturn
  /\ tasks'[t].pc # tasks[t].pc

\* the runs with one call at a time of a document of TotalPages pages: every
\* external call may fail, or the document is closed and opened again
FairInit ==
  /\ Init
  /\ env.slots = 1
  /\ env.pages = TotalPages
  /\ env.faults \/ env.sessions = MaxSessions

FairSpec ==
  /\ FairInit
  /\ [][Next]_vars
  /\ WF_vars(EffectReturn)
  /\ \A t \in TaskIds : SF_vars(CallStep(t))

\* C29: every analyzePage call returns or throws after at most maxRetries
\* attempts of at most `retries` requests each, provided every request, timer
\* and store call settles; and a call of the mounted instance leaves isAnalyzing
\* FALSE in the step in which it exits.
C29_Terminates ==
  /\ \A t \in TaskIds : InAnalyzePage(t) ~> ~InAnalyzePage(t)
  /\ [](\A t \in TaskIds :
          InAnalyzePage(t) => tasks[t].attempt < maxRetries /\ tasks[t].i < retries)
  /\ [][\A t \in TaskIds :
          (InAnalyzePage(t) /\ ~InAnalyzePage(t)' /\ tasks[t].s = inst')
            => ~isAnalyzing']_vars

\* C29 witness: a call has used every attempt of every retry loop and is in its
\* last request.
C29_Witness ==
  \E t \in TaskIds :
    /\ tasks[t].pc = "req"
    /\ tasks[t].attempt = maxRetries - 1
    /\ tasks[t].i = retries - 1

\* ------------------------------------------------------------------------
\* The quiz page range: the From/To inputs of PageRangeQuizSelector
\* (selectedRange) and of PdfPageNavigator (quizStartPage, quizEndPage).
Max(a, b) == IF a > b THEN a ELSE b

\* what parseInt(e.target.value) can give: NaN (nan) or an integer
InputValues ==
  {[nan |-> TRUE, n |-> 0]} \cup
  {[nan |-> FALSE, n |-> k] : k \in (0 - 1)..(totalPages + 1)}

\* parseInt(e.target.value) || d: NaN and 0 are falsy
ParseIntOr(e, d) == IF e.nan \/ e.n = 0 THEN d ELSE e.n

\* PageRangeQuizSelector: onChange of the From Page input
SelectorStartChange ==
  \E e \in InputValues :
    /\ selectedRange' =
         [selectedRange EXCEPT !.start = Max(1, Min(ParseIntOr(e, 1), totalPages))]
    /\ UNCHANGED <<quizStartPage, quizEndPage, navVars, quizVars, passVars>>

\* PageRangeQuizSelector: onChange of the To Page input
SelectorEndChange ==
  \E e \in InputValues :
    /\ selectedRange' =
         [selectedRange EXCEPT
            !.end = Max(selectedRange.start,
                        Min(ParseIntOr(e, selectedRange.start), totalPages))]
    /\ UNCHANGED <<quizStartPage, quizEndPage, navVars, quizVars, passVars>>

\* PdfPageNavigator: onChange of the From Page input
NavigatorStartChange ==
  \E e \in InputValues :
    /\ quizStartPage' = Max(1, Min(totalPages, ParseIntOr(e, 1)))
    /\ UNCHANGED <<selectedRange, quizEndPage, navVars, quizVars, passVars>>

\* PdfPageNavigator: onChange of the To Page input
NavigatorEndChange ==
  \E e \in InputValues :
    /\ quizEndPage' = Max(quizStartPage, Min(totalPages, ParseIntOr(e, quizStartPage)))
    /\ UNCHANGED <<selectedRange, quizStartPage, navVars, quizVars, passVars>>

RangeNext ==
  \/ SelectorStartChange
  \/ SelectorEndChange
  \/ NavigatorStartChange
  \/ NavigatorEndChange

RangeSpec == Init /\ [][RangeNext]_vars

\* C30: after any sequence of edits of the From/To inputs the quiz range obeys
\* 1 <= start <= end <= totalPages, in the selector and in the navigator.
C30_RangeOrdered ==
  /\ 1 <= selectedRange.start
  /\ selectedRange.start <= selectedRange.end
  /\ selectedRange.end <= totalPages
  /\ 1 <= quizStartPage
  /\ quizStartPage <= quizEndPage
  /\ quizEndPage <= totalPages
====
